---- MODULE Spec2Model ----
(***************************************************************************)
(* Model of app.py: the token ledger (tokens_db), the job registry         *)
(* (downloads_db), the token-gated HTTP handlers with the format selection *)
(* of fetch_formats, the socket handler handle_download with the           *)
(* extraction engine's progress hook, the background upload thread, and    *)
(* upload_to_r2_direct with the bucket it lists and writes.  Time is the   *)
(* wall clock read by time.time() and datetime.now(), in whole seconds.    *)
(***************************************************************************)
EXTENDS Integers, Sequences, FiniteSets, TLC

\* ------------------------------------------------------------------ bounds
\* tokens generated in one run of Spec
MaxTokens == 2
\* requests of the second client in SpecLedger
LedgerOthers == 1
\* upload_progress events of one upload
MaxUploadEvents == 1
\* clock advances in one run
MaxTicks == 2
\* tokens generated in one run of SpecGate
GateTokens == 1
\* upload_to_r2_direct calls in one run
MaxUploads == 2
\* formats of one URL
MaxFormats == 3

\* ------------------------------------------------------- program constants
\* validate_token / cleanup_expired_tokens: age > 300
TOKEN_TTL == 300
\* request_token: current_time - created_at < 3600
RATE_WINDOW == 3600
\* request_token: len(ip_tokens) >= 10
RATE_LIMIT == 10
\* cleanup_old_downloads: timedelta(hours=2), in seconds
RETENTION == 7200
\* upload_to_r2_direct, line 247: if version > 10
MAX_VERSION == 10

\* client addresses (X-Forwarded-For / remote_addr)
Clients == {"ipA", "ipB"}
\* concurrently handled request_token calls (one handler thread each)
Issuers == {"r1", "r2"}
\* concurrently handled download_video events (one handler thread each)
Subs == {"j1", "j2"}
\* a request without a token, and one with a token that was never issued
NoToken == <<>>
Forged == <<"forged">>
\* the n-th value returned by secrets.token_urlsafe
Tok(n) == <<"tok", n>>
\* download_id before uuid4() is called, and a download id no job ever had
NoJob == "nojob"
UnknownJob == "unknown"
\* an entry without the 'download_url' key
NoUrl == <<>>
\* percent values the engine reports through _percent_str
Percents == {50, 100}
NoPct == -1
\* amounts by which the clock advances between steps
Deltas == {TOKEN_TTL, RETENTION}
LedgerDeltas == {1, TOKEN_TTL, RATE_WINDOW}
\* the session_id a submission carries, and an event emitted without one
Sid(s) == <<"sid", s>>
NoSid == <<>>
\* the retrieval URL of the artifact uploaded for a job: R2_PUBLIC_URL/download/<name>
Url(s) == <<"download", s>>

VARIABLES
  now,          \* time.time() / datetime.now()
  ticks,        \* number of clock advances so far
  tokens_db,    \* token -> [created_at, used, ip]
  issued,       \* history: every token ever generated, <<[ip, created_at], ...>>
  consumed,     \* history: tokens whose used flag has been set
  downloads_db, \* download_id -> [download_url, fallback, timestamp]
  lastHttp,     \* the last HTTP response sent
  pc,           \* per submission: position of its handler / upload thread
  req,          \* per submission: the data of the download_video event
  download_id,  \* per submission: the id allocated by uuid4()
  eng,          \* per submission: what the extraction engine is fetching
  file,         \* per submission: whether the local output file exists
  evts,         \* per submission: the events emitted for it, in order
  bucket,       \* the R2 bucket: object key -> size in bytes
  uploads,      \* number of upload_to_r2_direct calls so far
  upPrev,       \* history: the outcome of the call before the last one
  upLast,       \* history: the outcome of the last upload_to_r2_direct call
  formats,      \* info['formats'] as the engine returns it for the client's URL
  listing,      \* history: what the last fetch_formats computed from formats
  issuing       \* per request_token call handled step by step: its position and client

vars == <<now, ticks, tokens_db, issued, consumed, downloads_db, lastHttp,
          pc, req, download_id, eng, file, evts, bucket, uploads, upPrev, upLast,
          formats, listing, issuing>>

ledgerVars == <<tokens_db, issued, consumed>>
jobVars == <<pc, req, download_id, eng, file, evts>>
storeVars == <<bucket, uploads, upPrev, upLast>>
formatVars == <<formats, listing>>
issueVars == <<issuing>>

\* ------------------------------------------------------------ token ledger

\* secrets.token_urlsafe(32): a value no earlier call returned
generate_token == Tok(Len(issued) + 1)

\* dict without one key
Del(db, k) == [x \in (DOMAIN db) \ {k} |-> db[x]]

\* validate_token without the check of the used flag
validate_token_ignores_used(db, token, t) ==
  /\ token # NoToken
  /\ token \in DOMAIN db
  /\ t - db[token].created_at <= TOKEN_TTL

\* validate_token without the check of the age
validate_token_ignores_age(db, token, t) ==
  /\ token # NoToken
  /\ token \in DOMAIN db
  /\ ~db[token].used

\* validate_token's return value
validate_token(db, token, t) ==
  /\ token # NoToken
  /\ token \in DOMAIN db
  /\ ~db[token].used
  /\ t - db[token].created_at <= TOKEN_TTL

\* a validation that takes the token it accepts out of the ledger
validate_evict_consumes(db, token, t) ==
  IF /\ token # NoToken
     /\ token \in DOMAIN db
     /\ ~db[token].used
  THEN Del(db, token)
  ELSE db

\* validate_token's effect on tokens_db: an unused token past its age is evicted
validate_evict(db, token, t) ==
  IF /\ token # NoToken
     /\ token \in DOMAIN db
     /\ ~db[token].used
     /\ t - db[token].created_at > TOKEN_TTL
  THEN Del(db, token)
  ELSE db

\* cleanup_expired_tokens
cleanup_expired_tokens(db, t) ==
  [x \in {k \in DOMAIN db : ~(t - db[k].created_at > TOKEN_TTL)} |-> db[x]]

\* cleanup_old_downloads
cleanup_old_downloads(db, t) ==
  [x \in {k \in DOMAIN db : ~(t - db[k].timestamp > RETENTION)} |-> db[x]]

\* request_token: ip_tokens
ip_tokens(db, ip, t) ==
  {k \in DOMAIN db : db[k].ip = ip /\ t - db[k].created_at < RATE_WINDOW}

\* the tokens a client can present: none, a made-up one, or one it was given
Presentable == {NoToken, Forged} \cup {Tok(n) : n \in 1 .. Len(issued)}

\* a response, with the request's token and download id and the time it was sent
Response(op, token, status, did, url) ==
  [op |-> op, token |-> token, status |-> status, download_id |-> did,
   download_url |-> url, at |-> now]

NoResponse ==
  [op |-> "none", token |-> NoToken, status |-> 0, download_id |-> NoJob,
   download_url |-> NoUrl, at |-> 0]

\* POST /api/request_token, the whole handler
request_token(ip, cap) ==
  /\ Cardinality({i \in DOMAIN issued : issued[i].ip = ip}) < cap
  /\ LET swept == cleanup_expired_tokens(tokens_db, now)
         token == generate_token
     IN /\ downloads_db' = cleanup_old_downloads(downloads_db, now)
        /\ IF Cardinality(ip_tokens(swept, ip, now)) >= RATE_LIMIT
           THEN /\ tokens_db' = swept
                /\ issued' = issued
                /\ lastHttp' = Response("request_token", NoToken, 429, NoJob, NoUrl)
           ELSE /\ tokens_db' = [x \in (DOMAIN swept) \cup {token} |->
                                   IF x = token
                                   THEN [created_at |-> now, used |-> FALSE, ip |-> ip]
                                   ELSE swept[x]]
                /\ issued' = Append(issued, [ip |-> ip, created_at |-> now])
                /\ lastHttp' = Response("request_token", token, 200, NoJob, NoUrl)
  /\ UNCHANGED <<now, ticks, consumed, jobVars>>

\* request_token, lines 395-405, as one step of call r: the sweeps, the count of
\* the client's tokens and the rate-limit answer
IssueCheck(r, ip) ==
  /\ issuing[r].pc = "idle"
  /\ LET swept == cleanup_expired_tokens(tokens_db, now)
         limited == Cardinality(ip_tokens(swept, ip, now)) >= RATE_LIMIT
     IN /\ tokens_db' = swept
        /\ downloads_db' = cleanup_old_downloads(downloads_db, now)
        /\ lastHttp' = IF limited
                       THEN Response("request_token", NoToken, 429, NoJob, NoUrl)
                       ELSE lastHttp
        /\ issuing' = [issuing EXCEPT ![r] =
                         [pc |-> IF limited THEN "done" ELSE "passed", ip |-> ip]]
  /\ UNCHANGED <<now, ticks, issued, consumed, jobVars, storeVars, formatVars>>

\* request_token, lines 407-410, as one step of call r: the token is generated,
\* stored and returned
IssueInsert(r) ==
  /\ issuing[r].pc = "passed"
  /\ LET token == generate_token
     IN /\ tokens_db' = [x \in (DOMAIN tokens_db) \cup {token} |->
                           IF x = token
                           THEN [created_at |-> now, used |-> FALSE, ip |-> issuing[r].ip]
                           ELSE tokens_db[x]]
        /\ issued' = Append(issued, [ip |-> issuing[r].ip, created_at |-> now])
        /\ lastHttp' = Response("request_token", token, 200, NoJob, NoUrl)
  /\ issuing' = [issuing EXCEPT ![r].pc = "done"]
  /\ UNCHANGED <<now, ticks, consumed, downloads_db, jobVars, storeVars, formatVars>>

\* POST /api/fetch_formats behind require_token, the whole handler
fetch_formats(token, hasUrl, engineOk) ==
  /\ tokens_db' = validate_evict(tokens_db, token, now)
  /\ lastHttp' = Response("fetch_formats", token,
                          IF ~validate_token(tokens_db, token, now) THEN 401
                          ELSE IF ~hasUrl THEN 400
                          ELSE IF engineOk THEN 200 ELSE 500,
                          NoJob, NoUrl)
  /\ UNCHANGED <<now, ticks, issued, consumed, downloads_db, jobVars>>

\* the result lookup without the token check
download_file_ungated(token, did) ==
  /\ tokens_db' = tokens_db
  /\ lastHttp' =
       IF did \notin DOMAIN downloads_db
       THEN Response("download_file", token, 404, did, NoUrl)
       ELSE IF downloads_db[did].download_url # NoUrl
       THEN Response("download_file", token, 200, did, downloads_db[did].download_url)
       ELSE Response("download_file", token, 404, did, NoUrl)
  /\ UNCHANGED <<now, ticks, issued, consumed, downloads_db, jobVars>>

\* download_file without the test of line 620: every entry is answered with 200
download_file_any_entry(token, did) ==
  /\ tokens_db' = validate_evict(tokens_db, token, now)
  /\ lastHttp' =
       IF ~validate_token(tokens_db, token, now)
       THEN Response("download_file", token, 401, did, NoUrl)
       ELSE IF did \notin DOMAIN downloads_db
       THEN Response("download_file", token, 404, did, NoUrl)
       ELSE Response("download_file", token, 200, did, downloads_db[did].download_url)
  /\ UNCHANGED <<now, ticks, issued, consumed, downloads_db, jobVars>>

\* GET /api/download/<download_id> behind require_token, the whole handler
download_file(token, did) ==
  /\ tokens_db' = validate_evict(tokens_db, token, now)
  /\ lastHttp' =
       IF ~validate_token(tokens_db, token, now)
       THEN Response("download_file", token, 401, did, NoUrl)
       ELSE IF did \notin DOMAIN downloads_db
       THEN Response("download_file", token, 404, did, NoUrl)
       ELSE IF downloads_db[did].download_url # NoUrl
       THEN Response("download_file", token, 200, did, downloads_db[did].download_url)
       ELSE Response("download_file", token, 404, did, NoUrl)
  /\ UNCHANGED <<now, ticks, issued, consumed, downloads_db, jobVars>>

\* the clock advances
Tick(deltas) ==
  /\ ticks < MaxTicks
  /\ \E d \in deltas : now' = now + d
  /\ ticks' = ticks + 1
  /\ UNCHANGED <<tokens_db, issued, consumed, downloads_db, lastHttp, jobVars>>

\* --------------------------------------------------------------- job runner

Ev(type, sid, status, pct, url, fb, did) ==
  [type |-> type, session_id |-> sid, status |-> status, percent |-> pct,
   download_url |-> url, fallback |-> fb, download_id |-> did]

\* socketio.emit / emit: the event is appended to what the submission's client receives
Emit(s, e) == evts' = [evts EXCEPT ![s] = Append(@, e)]

\* dict assignment db[k] = v
Put(db, k, v) == [x \in (DOMAIN db) \cup {k} |-> IF x = k THEN v ELSE db[x]]

\* str(uuid.uuid4()): a value no other call returns
uuid4(s) == s

\* the token check failed and the handler goes on after the error event
RejectSubmission_no_return(s) ==
  /\ Emit(s, Ev("download_error", NoSid, "error", NoPct, NoUrl, FALSE, NoJob))
  /\ pc' = [pc EXCEPT ![s] = "validated"]

\* handle_download, lines 487-489: the token check failed
RejectSubmission(s) ==
  /\ Emit(s, Ev("download_error", NoSid, "error", NoPct, NoUrl, FALSE, NoJob))
  /\ pc' = [pc EXCEPT ![s] = "rejected"]

\* handle_download, lines 486-489: the event arrives and its token is checked
Submit(s, token) ==
  /\ pc[s] = "idle"
  /\ req' = [req EXCEPT ![s] = [token |-> token]]
  /\ tokens_db' = validate_evict(tokens_db, token, now)
  /\ IF validate_token(tokens_db, token, now)
     THEN /\ pc' = [pc EXCEPT ![s] = "validated"]
          /\ evts' = evts
     ELSE RejectSubmission(s)
  /\ UNCHANGED <<now, ticks, issued, consumed, downloads_db, lastHttp, download_id, eng, file>>

\* handle_download without lines 491-492: the handler goes on, the token unmarked
MarkUsed_skipped(s) ==
  /\ pc[s] = "validated"
  /\ pc' = [pc EXCEPT ![s] = "marked"]
  /\ UNCHANGED <<now, ticks, ledgerVars, downloads_db, lastHttp, req, download_id, eng, file,
                 evts>>

\* handle_download, lines 491-494: the token is marked used
MarkUsed(s) ==
  /\ pc[s] = "validated"
  /\ IF req[s].token \in DOMAIN tokens_db
     THEN /\ tokens_db' = [tokens_db EXCEPT ![req[s].token].used = TRUE]
          /\ consumed' = consumed \cup {req[s].token}
     ELSE UNCHANGED <<tokens_db, consumed>>
  /\ pc' = [pc EXCEPT ![s] = "marked"]
  /\ UNCHANGED <<now, ticks, issued, downloads_db, lastHttp, req, download_id, eng, file, evts>>

\* handle_download, lines 496-507: the parameters are read, the download id is made
CheckParams(s, complete) ==
  /\ pc[s] = "marked"
  /\ IF complete
     THEN /\ download_id' = [download_id EXCEPT ![s] = uuid4(s)]
          /\ eng' = [eng EXCEPT ![s] = [stream |-> "video", pct |-> NoPct]]
          /\ pc' = [pc EXCEPT ![s] = "engine"]
          /\ evts' = evts
     ELSE /\ Emit(s, Ev("download_error", NoSid, "error", NoPct, NoUrl, FALSE, NoJob))
          /\ pc' = [pc EXCEPT ![s] = "invalid"]
          /\ UNCHANGED <<download_id, eng>>
  /\ UNCHANGED <<now, ticks, ledgerVars, downloads_db, lastHttp, req, file>>

\* progress_hook, status 'downloading': the engine's percent is relayed
HookDownloading(s, p) ==
  /\ pc[s] = "engine"
  /\ eng[s].stream \in {"video", "audio"}
  /\ p > eng[s].pct
  /\ eng' = [eng EXCEPT ![s].pct = p]
  /\ Emit(s, Ev("download_progress", Sid(s), "downloading", p, NoUrl, FALSE, NoJob))
  /\ UNCHANGED <<now, ticks, ledgerVars, downloads_db, lastHttp, pc, req, download_id, file>>

\* progress_hook, status 'finished': the engine has fetched one stream
HookFinished(s) ==
  /\ pc[s] = "engine"
  /\ eng[s].stream \in {"video", "audio"}
  /\ eng' = [eng EXCEPT ![s] = [stream |-> IF eng[s].stream = "video" THEN "audio" ELSE "merge",
                                pct |-> NoPct]]
  /\ Emit(s, Ev("download_progress", Sid(s), "processing", NoPct, NoUrl, FALSE, NoJob))
  /\ UNCHANGED <<now, ticks, ledgerVars, downloads_db, lastHttp, pc, req, download_id, file>>

\* the engine's failure is handled like a failed upload: a fallback entry is
\* recorded and a completion event follows the error event
EngineFail_recorded(s) ==
  /\ pc[s] = "engine"
  /\ downloads_db' = Put(downloads_db, download_id[s],
                         [download_url |-> NoUrl, fallback |-> TRUE, timestamp |-> now])
  /\ evts' = [evts EXCEPT ![s] =
               @ \o <<Ev("download_error", Sid(s), "str(e)", NoPct, NoUrl, FALSE, NoJob),
                      Ev("download_complete", Sid(s), "complete", NoPct, NoUrl, TRUE,
                         download_id[s])>>]
  /\ pc' = [pc EXCEPT ![s] = "failed"]
  /\ UNCHANGED <<now, ticks, ledgerVars, lastHttp, req, download_id, eng, file>>

\* handle_download, lines 605-610: extract_info raised; the event carries str(e)
EngineFail(s) ==
  /\ pc[s] = "engine"
  /\ Emit(s, Ev("download_error", Sid(s), "str(e)", NoPct, NoUrl, FALSE, NoJob))
  /\ pc' = [pc EXCEPT ![s] = "failed"]
  /\ UNCHANGED <<now, ticks, ledgerVars, downloads_db, lastHttp, req, download_id, eng, file>>

\* the merged file is missing and the handler returns without telling the client
EngineReturn_silent(s, found) ==
  /\ pc[s] = "engine"
  /\ eng[s].stream = "merge"
  /\ IF found
     THEN /\ file' = [file EXCEPT ![s] = TRUE]
          /\ Emit(s, Ev("download_progress", Sid(s), "uploading", NoPct, NoUrl, FALSE, NoJob))
          /\ pc' = [pc EXCEPT ![s] = "uploading"]
     ELSE /\ file' = file
          /\ evts' = evts
          /\ pc' = [pc EXCEPT ![s] = "nofile"]
  /\ UNCHANGED <<now, ticks, ledgerVars, downloads_db, lastHttp, req, download_id, eng>>

\* handle_download, lines 542-558 and 599-603: extract_info returned after the merge
EngineReturn(s, found) ==
  /\ pc[s] = "engine"
  /\ eng[s].stream = "merge"
  /\ IF found
     THEN /\ file' = [file EXCEPT ![s] = TRUE]
          /\ Emit(s, Ev("download_progress", Sid(s), "uploading", NoPct, NoUrl, FALSE, NoJob))
          /\ pc' = [pc EXCEPT ![s] = "uploading"]
     ELSE /\ file' = file
          /\ Emit(s, Ev("download_error", NoSid, "error", NoPct, NoUrl, FALSE, NoJob))
          /\ pc' = [pc EXCEPT ![s] = "nofile"]
  /\ UNCHANGED <<now, ticks, ledgerVars, downloads_db, lastHttp, req, download_id, eng>>

UploadEvents(s) == {i \in DOMAIN evts[s] : evts[s][i].type = "upload_progress"}

\* upload_to_r2_direct, progress_callback
UploadProgress(s, p) ==
  /\ pc[s] = "uploading"
  /\ Cardinality(UploadEvents(s)) < MaxUploadEvents
  /\ Emit(s, Ev("upload_progress", Sid(s), "transfer", p, NoUrl, FALSE, NoJob))
  /\ UNCHANGED <<now, ticks, ledgerVars, downloads_db, lastHttp, pc, req, download_id, eng, file>>

\* the upload returned and the local file is kept
UploadReturn_keeps_file(s) ==
  /\ pc[s] = "uploading"
  /\ pc' = [pc EXCEPT ![s] = "record"]
  /\ UNCHANGED <<now, ticks, ledgerVars, downloads_db, lastHttp, req, download_id, eng, file,
                 evts>>

\* upload_to_r2, lines 562-563: the upload returned and the local file is removed
UploadReturn(s) ==
  /\ pc[s] = "uploading"
  /\ file' = [file EXCEPT ![s] = FALSE]
  /\ pc' = [pc EXCEPT ![s] = "record"]
  /\ UNCHANGED <<now, ticks, ledgerVars, downloads_db, lastHttp, req, download_id, eng, evts>>

\* upload_to_r2, lines 565-581: the result is recorded and announced
RecordComplete(s) ==
  /\ pc[s] = "record"
  /\ downloads_db' = Put(downloads_db, download_id[s],
                         [download_url |-> Url(s), fallback |-> FALSE, timestamp |-> now])
  /\ Emit(s, Ev("download_complete", Sid(s), "complete", NoPct, Url(s), FALSE, download_id[s]))
  /\ pc' = [pc EXCEPT ![s] = "completed"]
  /\ UNCHANGED <<now, ticks, ledgerVars, lastHttp, req, download_id, eng, file>>

\* a failed upload reported as a failed job, with no registry entry
UploadRaise_as_error(s) ==
  /\ pc[s] = "uploading"
  /\ Emit(s, Ev("download_error", Sid(s), "error", NoPct, NoUrl, FALSE, NoJob))
  /\ pc' = [pc EXCEPT ![s] = "fallback"]
  /\ UNCHANGED <<now, ticks, ledgerVars, downloads_db, lastHttp, req, download_id, eng, file>>

\* upload_to_r2, lines 583-597: upload_to_r2_direct raised
UploadRaise(s) ==
  /\ pc[s] = "uploading"
  /\ downloads_db' = Put(downloads_db, download_id[s],
                         [download_url |-> NoUrl, fallback |-> TRUE, timestamp |-> now])
  /\ Emit(s, Ev("download_complete", Sid(s), "complete", NoPct, NoUrl, TRUE, download_id[s]))
  /\ pc' = [pc EXCEPT ![s] = "fallback"]
  /\ UNCHANGED <<now, ticks, ledgerVars, lastHttp, req, download_id, eng, file>>

\* --------------------------------------------------------------- object store

\* display names handed to upload_to_r2_direct, as sequences of characters
DisplayNames == {<<"a", " ", ".", "m">>, <<"a", "#", "_", ".", "m">>, <<"a", "|">>}
\* sizes of local files, in bytes
Sizes == {100, 101, 300, 900}

\* str.replace(old, new) for single characters
Replace(name, old, new) == [i \in DOMAIN name |-> IF name[i] = old THEN new ELSE name[i]]

\* c.isalnum() or c in '._-[]() ', for the characters of DisplayNames
Kept(c) == c \in {"a", "m", ".", "_", "-", "[", "]", "(", ")", " "}

\* upload_to_r2_direct, lines 220-222: clean_filename
sanitize(display) ==
  Replace(SelectSeq(Replace(Replace(display, " ", "_"), "|", "-"), Kept), " ", "_")

Dots(name) == {i \in DOMAIN name : name[i] = "."}
LastDot(name) == CHOOSE i \in Dots(name) : \A j \in Dots(name) : j <= i
\* unique_filename.rsplit('.', 1)[0] if '.' in unique_filename else unique_filename
base_name(name) == IF Dots(name) # {} THEN SubSeq(name, 1, LastDot(name) - 1) ELSE name
\* '.' + unique_filename.rsplit('.', 1)[1] if '.' in unique_filename else ''
extension(name) == IF Dots(name) # {} THEN SubSeq(name, LastDot(name), Len(name)) ELSE <<>>

\* the decimal digits of a natural number, as an f-string writes them
Digit(d) == <<"0", "1", "2", "3", "4", "5", "6", "7", "8", "9">>[d + 1]
RECURSIVE Decimal(_)
Decimal(n) == IF n < 10 THEN <<Digit(n)>> ELSE Decimal(n \div 10) \o <<Digit(n % 10)>>

\* f"{base_name}_v{version}{extension}"
versioned(name, version) ==
  base_name(name) \o <<"_", "v">> \o Decimal(version) \o extension(name)
\* f"{base_name}_{int(time.time())}{extension}"
stamped(name, t) == base_name(name) \o <<"_">> \o Decimal(t) \o extension(name)

\* the code point of a character of an object key
Ord(c) ==
  CASE c = "-" -> 45 [] c = "." -> 46
    [] c = "0" -> 48 [] c = "1" -> 49 [] c = "2" -> 50 [] c = "3" -> 51 [] c = "4" -> 52
    [] c = "5" -> 53 [] c = "6" -> 54 [] c = "7" -> 55 [] c = "8" -> 56 [] c = "9" -> 57
    [] c = "_" -> 95 [] c = "a" -> 97 [] c = "m" -> 109 [] c = "v" -> 118

\* key a sorts before key b in the order list_objects_v2 returns keys (UTF-8 binary)
KeyLess(a, b) ==
  \E i \in 1..Len(b) :
    /\ i - 1 <= Len(a)
    /\ \A j \in 1..(i - 1) : a[j] = b[j]
    /\ (i > Len(a) \/ Ord(a[i]) < Ord(b[i]))

RECURSIVE SortedKeys(_)
SortedKeys(keys) ==
  IF keys = {} THEN <<>>
  ELSE LET first == CHOOSE x \in keys : \A y \in keys \ {x} : KeyLess(x, y)
       IN <<first>> \o SortedKeys(keys \ {first})

\* s3_client.list_objects_v2(Bucket=...)['Contents']
list_objects_v2(b) ==
  LET keys == SortedKeys(DOMAIN b)
  IN [i \in DOMAIN keys |-> [Key |-> keys[i], Size |-> b[keys[i]]]]

Abs(x) == IF x < 0 THEN -x ELSE x

\* size_diff <= file_size * 0.01
SameSize(existing_size, file_size) == Abs(existing_size - file_size) * 100 <= file_size

\* upload_to_r2_direct, lines 241-249: the while loop, from the given version on
RECURSIVE NextFreeName(_, _, _, _)
NextFreeName(contents, name, version, t) ==
  LET candidate == versioned(name, version)
  IN IF ~\E i \in DOMAIN contents : contents[i].Key = candidate
     THEN candidate
     ELSE IF version + 1 > MAX_VERSION
          THEN stamped(name, t)
          ELSE NextFreeName(contents, name, version + 1, t)

\* upload_to_r2_direct, lines 229-249: the for loop over the listing, from entry i
\* on, with unique_filename as it stands
RECURSIVE DuplicateCheck(_, _, _, _, _)
DuplicateCheck(contents, i, unique_filename, file_size, t) ==
  IF i > Len(contents)
  THEN [duplicate |-> FALSE, filename |-> unique_filename]
  ELSE IF contents[i].Key = unique_filename
       THEN IF SameSize(contents[i].Size, file_size)
            THEN [duplicate |-> TRUE, filename |-> contents[i].Key]
            ELSE LET chosen == NextFreeName(contents, unique_filename, 1, t)
                 IN DuplicateCheck(contents, i + 1, chosen, file_size, t)
       ELSE DuplicateCheck(contents, i + 1, unique_filename, file_size, t)

\* f"{R2_PUBLIC_URL}/download/{unique_filename}"
DownloadUrl(key) == <<"R2_PUBLIC_URL", "/download/", key>>

NoKey == <<>>
NoUpload ==
  [status |-> "none", name |-> NoKey, size |-> 0, filename |-> NoKey, duplicate |-> FALSE,
   transferred |-> FALSE, listed |-> FALSE, collided |-> FALSE, fresh |-> FALSE]

\* upload_to_r2_direct: listed says whether list_objects_v2 returned, put whether
\* upload_file did
upload_to_r2_direct(display_filename, file_size, listed, put) ==
  /\ uploads < MaxUploads
  /\ \E clean_filename \in {sanitize(display_filename)},
        contents \in {list_objects_v2(bucket)} :
     \E check \in {IF listed
                    THEN DuplicateCheck(contents, 1, clean_filename, file_size, now)
                    ELSE [duplicate |-> FALSE, filename |-> clean_filename]} :
     LET transferred == ~check.duplicate /\ put
     IN /\ bucket' = IF transferred THEN Put(bucket, check.filename, file_size) ELSE bucket
        /\ upLast' =
             [status |-> IF check.duplicate \/ put THEN "returned" ELSE "raised",
              name |-> clean_filename, size |-> file_size, filename |-> check.filename,
              duplicate |-> check.duplicate, transferred |-> transferred, listed |-> listed,
              collided |-> /\ clean_filename \in DOMAIN bucket
                           /\ ~SameSize(bucket[clean_filename], file_size),
              fresh |-> check.filename \notin DOMAIN bucket]
  /\ upPrev' = upLast
  /\ uploads' = uploads + 1
  /\ UNCHANGED <<now, ticks, ledgerVars, downloads_db, lastHttp, jobVars, formatVars, issueVars>>

\* a bucket that holds the first display name's key and its versions 1..n
Held(n) ==
  LET name == sanitize(<<"a", " ", ".", "m">>)
  IN [k \in {name} \cup {versioned(name, v) : v \in 1..n} |-> IF k = name THEN 300 ELSE 100]

\* what the bucket may hold when the server starts: nothing, or what earlier
\* uploads of the first display name left there
Buckets ==
  {<<>>, Held(0), Held(MAX_VERSION - 1), Held(MAX_VERSION),
   Put(Held(MAX_VERSION), stamped(sanitize(<<"a", " ", ".", "m">>), 0), 100)}

\* ------------------------------------------------------------ format listing

\* dict.get(key) of a key whose value is None, and of a key the dict lacks
PyNone == -1
Missing == -2

\* f.get(key, default)
Get(v, default) == IF v = Missing THEN default ELSE v
\* the truth value Python gives a number or None
Truthy(v) == v \notin {Missing, PyNone, 0}
\* a > b raises TypeError when either side is None
Comparable(a, b) == a # PyNone /\ b # PyNone

\* the format dicts the engine may return: video-only, audio-only, and with both
VideoOnly ==
  [vcodec : {"avc1"}, acodec : {"none"}, height : {PyNone, 720, 1080},
   filesize : {PyNone, 5}, filesize_approx : {Missing, PyNone, 7}, abr : {Missing}]
AudioOnly ==
  [vcodec : {"none"}, acodec : {"opus"}, height : {PyNone},
   filesize : {PyNone}, filesize_approx : {Missing}, abr : {Missing, PyNone, 64, 128}]
Muxed ==
  [vcodec : {"avc1"}, acodec : {"opus"}, height : {720},
   filesize : {PyNone}, filesize_approx : {Missing}, abr : {Missing}]
FormatLists == UNION {[1..n -> VideoOnly \cup AudioOnly \cup Muxed] : n \in 0..MaxFormats}

\* fetch_formats, line 446: f.get('filesize') or f.get('filesize_approx', 0)
FileSize(f) == IF Truthy(f.filesize) THEN f.filesize ELSE Get(f.filesize_approx, 0)

\* fetch_formats, lines 441-461: the loop over formats from entry i on; raised
\* says that a comparison has raised TypeError
RECURSIVE Collect(_, _, _)
Collect(fs, i, acc) ==
  IF i > Len(fs) \/ acc.raised THEN acc
  ELSE LET f == fs[i]
           quality == <<f.height, "p">>
           entry == [format_id |-> i, quality |-> quality, filesize |-> FileSize(f)]
       IN IF f.vcodec # "none" /\ f.acodec = "none"
          THEN IF ~Truthy(f.height) THEN Collect(fs, i + 1, acc)
               ELSE IF quality \notin DOMAIN acc.video_formats
               THEN Collect(fs, i + 1,
                            [acc EXCEPT !.video_formats = Put(@, quality, entry)])
               ELSE IF ~Comparable(FileSize(f), acc.video_formats[quality].filesize)
               THEN [acc EXCEPT !.raised = TRUE]
               ELSE IF FileSize(f) > acc.video_formats[quality].filesize
               THEN Collect(fs, i + 1,
                            [acc EXCEPT !.video_formats = Put(@, quality, entry)])
               ELSE Collect(fs, i + 1, acc)
          ELSE IF f.acodec # "none" /\ f.vcodec = "none"
          THEN Collect(fs, i + 1,
                       [acc EXCEPT !.audio_formats =
                          Append(@, [format_id |-> i, abr |-> Get(f.abr, 0)])])
          ELSE Collect(fs, i + 1, acc)

\* a sequence without its i-th element
Without(seq, i) == SubSeq(seq, 1, i - 1) \o SubSeq(seq, i + 1, Len(seq))

\* list.sort(key=..., reverse=True), with the keys of the entries given beside
\* them: descending by key, equal keys in their order
RECURSIVE SortDescending(_, _)
SortDescending(entries, keys) ==
  IF entries = <<>> THEN <<>>
  ELSE LET first == CHOOSE i \in DOMAIN entries :
                      /\ \A j \in DOMAIN entries : keys[j] <= keys[i]
                      /\ \A j \in 1..(i - 1) : keys[j] < keys[i]
       IN <<entries[first]>> \o SortDescending(Without(entries, first), Without(keys, first))

\* x.get('abr', 0) of every entry
Abrs(entries) == [i \in DOMAIN entries |-> entries[i].abr]
\* int(x['quality'].replace('p', '')) of every entry
Heights(entries) == [i \in DOMAIN entries |-> entries[i].quality[1]]

\* the values of a dict in some order
RECURSIVE Values(_)
Values(d) ==
  IF DOMAIN d = {} THEN <<>>
  ELSE LET k == CHOOSE x \in DOMAIN d : TRUE
       IN <<d[k]>> \o Values([x \in (DOMAIN d) \ {k} |-> d[x]])

\* best_audio when audio_formats is empty
NoFormat == [format_id |-> 0, abr |-> PyNone]

NoListing ==
  [answered |-> FALSE, raised |-> FALSE, video_formats |-> <<>>, audio_formats |-> <<>>,
   best_audio |-> NoFormat]

\* fetch_formats, lines 434-478: what the handler makes of the engine's formats
SelectFormats(fs) ==
  LET found == Collect(fs, 1, [raised |-> FALSE, video_formats |-> <<>>,
                               audio_formats |-> <<>>])
      sortRaises == /\ Len(found.audio_formats) > 1
                    /\ \E i \in DOMAIN found.audio_formats :
                         found.audio_formats[i].abr = PyNone
  IN IF found.raised \/ sortRaises
     THEN [NoListing EXCEPT !.answered = TRUE, !.raised = TRUE]
     ELSE LET audio_formats == SortDescending(found.audio_formats, Abrs(found.audio_formats))
              video_list == Values(found.video_formats)
          IN [answered |-> TRUE, raised |-> FALSE,
              video_formats |-> SortDescending(video_list, Heights(video_list)),
              audio_formats |-> audio_formats,
              best_audio |-> IF audio_formats # <<>> THEN audio_formats[1] ELSE NoFormat]

\* POST /api/fetch_formats with the format selection: the engine returns formats
\* when engineOk, and the handler answers 500 when the engine or the selection
\* raises
fetch_formats_listing(token, hasUrl, engineOk) ==
  \E selected \in {SelectFormats(formats)} :
    /\ fetch_formats(token, hasUrl, engineOk /\ ~selected.raised)
    /\ listing' = IF validate_token(tokens_db, token, now) /\ hasUrl /\ engineOk
                  THEN selected
                  ELSE NoListing
    /\ UNCHANGED <<storeVars, formats, issueVars>>

InitServer ==
  /\ now = 0
  /\ ticks = 0
  /\ tokens_db = <<>>
  /\ issued = <<>>
  /\ consumed = {}
  /\ downloads_db = <<>>
  /\ lastHttp = NoResponse
  /\ pc = [s \in Subs |-> "idle"]
  /\ req = [s \in Subs |-> [token |-> NoToken]]
  /\ download_id = [s \in Subs |-> NoJob]
  /\ eng = [s \in Subs |-> [stream |-> "none", pct |-> NoPct]]
  /\ file = [s \in Subs |-> FALSE]
  /\ evts = [s \in Subs |-> <<>>]
  /\ uploads = 0
  /\ upPrev = NoUpload
  /\ upLast = NoUpload
  /\ listing = NoListing
  /\ issuing = [r \in Issuers |-> [pc |-> "idle", ip |-> "ipA"]]

\* the server starts on an empty bucket
Init == InitServer /\ bucket = <<>> /\ formats = <<>>

\* the server starts on a bucket left by earlier runs
InitUpload == InitServer /\ bucket \in Buckets /\ formats = <<>>

\* the server starts, and the URL the client will ask about has some formats
InitFormats == InitServer /\ bucket = <<>> /\ formats \in FormatLists

RequestToken == (\E ip \in {"ipA"} : request_token(ip, MaxTokens)) /\ UNCHANGED <<storeVars, formatVars, issueVars>>
FetchFormats ==
  (\E t \in Presentable, u \in BOOLEAN, e \in BOOLEAN : fetch_formats(t, u, e))
    /\ UNCHANGED <<storeVars, formatVars, issueVars>>
DownloadFile ==
  (\E t \in Presentable, d \in {uuid4("j1"), UnknownJob} : download_file(t, d))
    /\ UNCHANGED <<storeVars, formatVars, issueVars>>
Advance == Tick(Deltas) /\ UNCHANGED <<storeVars, formatVars, issueVars>>

\* one step of submission s's handler or of its upload thread
JobStep(s) ==
  \/ \E t \in Presentable : Submit(s, t)
  \/ MarkUsed(s)
  \/ \E c \in BOOLEAN : CheckParams(s, c)
  \/ HookFinished(s)
  \/ EngineFail(s)
  \/ \E f \in BOOLEAN : EngineReturn(s, f)
  \/ UploadReturn(s)
  \/ RecordComplete(s)
  \/ UploadRaise(s)

\* one progress report relayed for submission s
ProgressStep(s) ==
  \/ \E p \in Percents : HookDownloading(s, p)
  \/ \E p \in Percents : UploadProgress(s, p)

\* one job with every progress report, the ledger and the clock
Job == JobStep("j1") /\ UNCHANGED <<storeVars, formatVars, issueVars>>
Progress == ProgressStep("j1") /\ UNCHANGED <<storeVars, formatVars, issueVars>>
Next == RequestToken \/ Advance \/ Job \/ Progress
Spec == Init /\ [][Next]_vars

\* the steps of an accepted submission that the server takes by itself: the
\* handler's thread and the upload thread are scheduled, and every engine and
\* storage call returns or raises
JobRun(s) ==
  \/ MarkUsed(s)
  \/ \E c \in BOOLEAN : CheckParams(s, c)
  \/ HookFinished(s)
  \/ EngineFail(s)
  \/ \E f \in BOOLEAN : EngineReturn(s, f)
  \/ UploadReturn(s)
  \/ RecordComplete(s)
  \/ UploadRaise(s)

\* the one-job system with its threads scheduled fairly; the clock moves in
\* steps of the retention period, so that the sweeps evict tokens and entries
LiveAdvance == Tick({RETENTION}) /\ UNCHANGED <<storeVars, formatVars, issueVars>>
LiveNext == RequestToken \/ LiveAdvance \/ Job \/ Progress
SpecLive == Init /\ [][LiveNext]_vars /\ WF_vars(JobRun("j1") /\ UNCHANGED <<storeVars, formatVars, issueVars>>)

\* the token-gated HTTP handlers beside one job, the ledger and the clock
HttpNext == RequestToken \/ Advance \/ FetchFormats \/ DownloadFile \/ Job
SpecHttp == Init /\ [][HttpNext]_vars

\* result retrieval beside one job, the ledger and the clock
RegistryNext == RequestToken \/ LiveAdvance \/ DownloadFile \/ Job
SpecRegistry == Init /\ [][RegistryNext]_vars

\* the token-gated HTTP handlers beside one job that consumes the client's token
GateIssue == (\E ip \in {"ipA"} : request_token(ip, GateTokens)) /\ UNCHANGED <<storeVars, formatVars, issueVars>>
GateNext == GateIssue \/ Advance \/ FetchFormats \/ DownloadFile \/ Job
SpecGate == Init /\ [][GateNext]_vars

\* format listings for one URL, with the client's token
FormatsRequest ==
  \E t \in Presentable, u \in BOOLEAN, e \in BOOLEAN : fetch_formats_listing(t, u, e)
FormatsNext == GateIssue \/ FormatsRequest
SpecFormats == InitFormats /\ [][FormatsNext]_vars

\* two submissions handled concurrently
Concurrent == (\E s \in Subs : JobStep(s)) /\ UNCHANGED <<storeVars, formatVars, issueVars>>
RaceNext == RequestToken \/ Advance \/ Concurrent
SpecRace == Init /\ [][RaceNext]_vars

\* token issuance of two clients up to the rate limit and one beyond
LedgerIssue ==
  (\E ip \in Clients : request_token(ip, IF ip = "ipA" THEN RATE_LIMIT + 1 ELSE LedgerOthers))
    /\ UNCHANGED <<storeVars, formatVars, issueVars>>
LedgerAdvance == Tick(LedgerDeltas) /\ UNCHANGED <<storeVars, formatVars, issueVars>>
LedgerNext == LedgerIssue \/ LedgerAdvance
SpecLedger == Init /\ [][LedgerNext]_vars

\* requests of one client one after another up to one below the rate limit, and
\* two requests handled concurrently, step by step
IssueBefore ==
  (\E ip \in {"ipA"} : request_token(ip, RATE_LIMIT - 1))
    /\ UNCHANGED <<storeVars, formatVars, issueVars>>
IssueStep ==
  \E r \in Issuers : (\E ip \in Clients : IssueCheck(r, ip)) \/ IssueInsert(r)
IssueNext == IssueBefore \/ IssueStep
SpecIssue == Init /\ [][IssueNext]_vars

\* uploads one after another into a bucket, and the clock in seconds
UploadCall ==
  \E d \in DisplayNames, size \in Sizes, listed \in BOOLEAN, put \in BOOLEAN :
    upload_to_r2_direct(d, size, listed, put)
UploadAdvance == Tick({1}) /\ UNCHANGED <<storeVars, formatVars, issueVars>>
UploadNext == UploadCall \/ UploadAdvance
SpecUpload == InitUpload /\ [][UploadNext]_vars

\* ------------------------------------------------------------------ claims

\* the events of submission s of one type
EventsOf(s, type) == {i \in DOMAIN evts[s] : evts[s][i].type = type}

\* C1: a token whose used flag has been set by a job submission is rejected by
\* validate_token in every later state, whatever issuance, sweep, validation or
\* clock advance came in between.
C1_ConsumedTokenStaysInvalid ==
  \A t \in consumed : ~validate_token(tokens_db, t, now)

\* a submission presented a token that another submission had consumed and that
\* is still in the ledger and young enough, and was refused
C1_Witness ==
  \E s \in Subs :
    /\ pc[s] = "rejected"
    /\ req[s].token \in consumed
    /\ req[s].token \in DOMAIN tokens_db
    /\ now - tokens_db[req[s].token].created_at <= TOKEN_TTL

\* C2: validate_token returns false for every token older than 300 seconds,
\* consumed or not, swept or not.
C2_ExpiredTokenInvalid ==
  \A n \in DOMAIN issued :
    now - issued[n].created_at > TOKEN_TTL => ~validate_token(tokens_db, Tok(n), now)

\* the only token ever issued, never consumed, was refused after its 300 seconds
\* and evicted by that validation (no issuance, hence no sweep, ran after it)
C2_Witness ==
  \E s \in Subs :
    /\ pc[s] = "rejected"
    /\ req[s].token = Tok(1)
    /\ Len(issued) = 1
    /\ consumed = {}
    /\ now - issued[1].created_at > TOKEN_TTL
    /\ Tok(1) \notin DOMAIN tokens_db

\* C3: no client is issued more than 10 tokens within 3600 seconds: an issuance
\* that would be the 11th of the trailing window is rejected.
C3_AtMostTenPerWindow ==
  \A ip \in Clients :
    Cardinality({n \in DOMAIN issued :
                   issued[n].ip = ip /\ now - issued[n].created_at < RATE_WINDOW})
      <= RATE_LIMIT

\* C4: of the submissions presenting the same token at most one passes the token
\* check and launches a job.
C4_OneJobPerToken ==
  \A s1, s2 \in Subs :
    (s1 # s2 /\ download_id[s1] # NoJob /\ download_id[s2] # NoJob)
      => req[s1].token # req[s2].token

\* C5: a token that a gated HTTP operation has accepted is marked used.
C5_AcceptedTokenIsUsed ==
  (lastHttp.op \in {"fetch_formats", "download_file"} /\ lastHttp.status = 200
     /\ lastHttp.token \in DOMAIN tokens_db)
    => tokens_db[lastHttp.token].used

\* C6: result retrieval never answers with a retrieval URL for a job whose entry
\* was recorded more than 2 hours before the request.
C6_NoLookupAfterRetention ==
  (lastHttp.op = "download_file" /\ lastHttp.status = 200
     /\ lastHttp.download_id \in DOMAIN downloads_db)
    => lastHttp.at - downloads_db[lastHttp.download_id].timestamp <= RETENTION

\* the one event a refused submission produces
RefusalEvent == Ev("download_error", NoSid, "error", NoPct, NoUrl, FALSE, NoJob)

C7_RefusedState ==
  \A s \in Subs :
    pc[s] = "rejected" =>
      /\ evts[s] = <<RefusalEvent>>
      /\ download_id[s] = NoJob
      /\ eng[s].stream = "none"
      /\ ~file[s]
      /\ uuid4(s) \notin DOMAIN downloads_db

C7_RefusedStep ==
  \A s \in Subs :
    (pc[s] = "idle" /\ pc'[s] # "idle" /\ ~validate_token(tokens_db, req'[s].token, now))
      => (pc'[s] = "rejected" /\ downloads_db' = downloads_db /\ download_id' = download_id)

\* C7: a submission whose token is missing, unknown, used or expired is answered
\* with one error event and goes no further: no download id, no engine call, no
\* upload, no registry entry.
C7_InvalidTokenSubmission == []C7_RefusedState /\ [][C7_RefusedStep]_vars

\* a submission presenting a token that another submission consumed was refused
C7_Witness ==
  \E s \in Subs : pc[s] = "rejected" /\ req[s].token \in consumed

C8_FallbackState ==
  \A s \in Subs :
    pc[s] = "fallback" =>
      /\ Cardinality(EventsOf(s, "download_complete")) = 1
      /\ \A i \in EventsOf(s, "download_complete") :
           evts[s][i].fallback /\ evts[s][i].download_url = NoUrl
      /\ EventsOf(s, "download_error") = {}
      /\ download_id[s] \in DOMAIN downloads_db =>
           /\ downloads_db[download_id[s]].fallback
           /\ downloads_db[download_id[s]].download_url = NoUrl

C8_FallbackStep ==
  \A s \in Subs :
    (pc[s] = "uploading" /\ pc'[s] = "fallback") =>
      /\ download_id[s] \in DOMAIN downloads_db'
      /\ downloads_db'[download_id[s]].fallback
      /\ downloads_db'[download_id[s]].download_url = NoUrl

\* C8: a job whose upload fails after a successful download ends with exactly one
\* completion event with fallback=true and no URL and with no error event, and the
\* failure creates a registry entry with the fallback flag and no URL.
C8_UploadFailureFallback == []C8_FallbackState /\ [][C8_FallbackStep]_vars

\* the upload of a downloaded job failed and its fallback entry is in the registry
C8_Witness ==
  /\ pc["j1"] = "fallback"
  /\ "j1" \in DOMAIN downloads_db
  /\ Cardinality(EventsOf("j1", "download_progress")) > 2

\* the download_progress events of submission s that carry a percent
PercentEvents(s) == {i \in EventsOf(s, "download_progress") : evts[s][i].percent # NoPct}

\* C9: for a job whose download and upload both succeed, the percents of its
\* download progress events never decrease, and the events end with exactly one
\* completion event carrying a retrieval URL.
C9_MonotonePercentThenComplete ==
  \A s \in Subs :
    pc[s] = "completed" =>
      /\ \A i, j \in PercentEvents(s) : i < j => evts[s][i].percent <= evts[s][j].percent
      /\ Cardinality(EventsOf(s, "download_complete")) = 1
      /\ evts[s][Len(evts[s])].type = "download_complete"
      /\ evts[s][Len(evts[s])].download_url # NoUrl

\* the stage a download_progress notification reports
StageRank(status) ==
  CASE status = "downloading" -> 1
    [] status = "processing" -> 2
    [] status = "uploading" -> 3
    [] OTHER -> 0

\* C10: the stages a job reports only move forward: no 'downloading' after
\* 'processing', neither of them after 'uploading'.
C10_StagesMoveForward ==
  \A s \in Subs :
    \A i, j \in EventsOf(s, "download_progress") :
      i < j => StageRank(evts[s][i].status) <= StageRank(evts[s][j].status)

\* handle_download has been entered for submission s and has not returned: the
\* token check, the parameter check and extract_info(url, download=True) all run
\* in the handler, only upload_to_r2 runs in a thread of its own
InHandler(s) == pc[s] \in {"validated", "marked", "engine"}

\* the engine has reported 'finished' for every stream of submission s
DownloadingDone(s) == eng[s].stream = "merge"

\* C11: the submission handler returns before the job's Downloading stage
\* completes: whenever the engine has finished fetching the streams of a job,
\* the handler that accepted the job has already returned.
C11_HandlerReturnsBeforeDownloadEnds ==
  \A s \in Subs : DownloadingDone(s) => ~InHandler(s)

\* submission s was accepted: its token was valid and its parameters complete
Accepted(s) == download_id[s] # NoJob

\* the job of submission s is over
Terminal(s) == pc[s] \in {"completed", "fallback", "failed", "nofile"}

\* the completion and error events sent for submission s
TerminalEvents(s) == EventsOf(s, "download_complete") \cup EventsOf(s, "download_error")

C12_TerminalState ==
  \A s \in Subs :
    Terminal(s) =>
      /\ Accepted(s)
      /\ Cardinality(TerminalEvents(s)) = 1
      /\ Len(evts[s]) \in TerminalEvents(s)

C12_TerminalStep ==
  \A s \in Subs :
    Terminal(s) =>
      /\ pc'[s] = pc[s]
      /\ evts'[s] = evts[s]
      /\ download_id[s] \in DOMAIN downloads_db' =>
           /\ download_id[s] \in DOMAIN downloads_db
           /\ downloads_db'[download_id[s]] = downloads_db[download_id[s]]

\* C12: every accepted submission eventually reaches a terminal state, given that
\* its threads are scheduled and the engine and storage calls return or raise; in
\* that state exactly one completion or error event has been sent and it is the
\* last event, and afterwards no event is sent and the job's registry entry is
\* never written again (the sweep may only remove it).
C12_AcceptedJobTerminates ==
  /\ \A s \in Subs : Accepted(s) ~> Terminal(s)
  /\ []C12_TerminalState
  /\ [][C12_TerminalStep]_vars

\* an accepted job has run to its completion event and its entry is in the registry
C12_Witness ==
  /\ pc["j1"] = "completed"
  /\ Accepted("j1")
  /\ download_id["j1"] \in DOMAIN downloads_db
  /\ Cardinality(TerminalEvents("j1")) = 1

\* the last two upload_to_r2_direct calls both returned, and were for the same
\* sanitized name with sizes within 1% of each other
SameContentTwice ==
  /\ upPrev.status = "returned"
  /\ upLast.status = "returned"
  /\ upPrev.name = upLast.name
  /\ SameSize(upPrev.size, upLast.size)
  /\ SameSize(upLast.size, upPrev.size)

\* C13: two uploads in sequence of the same sanitized name with sizes within 1%
\* return the same URL, and the second one transfers nothing, whatever the bucket
\* holds and whether or not it can be listed.
C13_EqualContentUploadedOnce ==
  SameContentTwice =>
    /\ DownloadUrl(upLast.filename) = DownloadUrl(upPrev.filename)
    /\ ~upLast.transferred

\* C14: content whose sanitized name is already stored with a size differing by
\* more than 1% is never written under a name that an object of the bucket
\* already has.
C14_CollisionGetsFreshName ==
  (upLast.status = "returned" /\ upLast.collided /\ upLast.transferred) => upLast.fresh

\* everything the server holds for submission s
JobState(s) == <<pc[s], req[s], download_id[s], eng[s], file[s], evts[s]>>

C17_FailedState ==
  \A s \in Subs :
    pc[s] = "failed" =>
      /\ Cardinality(EventsOf(s, "download_error")) = 1
      /\ evts[s][Len(evts[s])] =
           Ev("download_error", Sid(s), "str(e)", NoPct, NoUrl, FALSE, NoJob)
      /\ EventsOf(s, "download_complete") = {}
      /\ EventsOf(s, "upload_progress") = {}
      /\ \A i \in EventsOf(s, "download_progress") : evts[s][i].status # "uploading"
      /\ ~file[s]
      /\ download_id[s] \notin DOMAIN downloads_db

C17_FailedStep ==
  \A s \in Subs :
    /\ (pc[s] = "engine" /\ pc'[s] = "failed") =>
         /\ \A o \in Subs \ {s} : JobState(o)' = JobState(o)
         /\ UNCHANGED <<downloads_db, tokens_db>>
    /\ pc[s] = "failed" => JobState(s)' = JobState(s)

\* C17: when the engine fails during the download or the merge, the job goes
\* straight to Failed: one error event with the engine's message, sent last, no
\* completion event, no upload, no registry entry, no second engine call, and
\* nothing of any other job changes.
C17_EngineFailureFailsJob == []C17_FailedState /\ [][C17_FailedStep]_vars

\* the engine failed after it had fetched a stream, while the other job is running
C17_Witness ==
  /\ pc["j1"] = "failed"
  /\ Len(evts["j1"]) >= 2
  /\ pc["j2"] \in {"engine", "uploading", "record"}

\* the registry entry of submission s carries a retrieval URL
HasUrl(s) ==
  /\ download_id[s] \in DOMAIN downloads_db
  /\ downloads_db[download_id[s]].download_url # NoUrl

C19_FileState ==
  \A s \in Subs :
    /\ HasUrl(s) => ~file[s]
    /\ pc[s] = "record" => (~file[s] /\ ~HasUrl(s))
    /\ pc[s] \in {"uploading", "fallback"} => file[s]

C19_FileStep ==
  \A s \in Subs :
    (file[s] /\ ~file'[s]) <=> (pc[s] = "uploading" /\ pc'[s] = "record")

\* C19: the local file is deleted exactly when the upload returns, before the URL
\* is recorded: an entry with a URL means the file is gone, and after a failed
\* upload the file stays.
C19_FileDeletedOnUploadOnly == []C19_FileState /\ [][C19_FileStep]_vars

\* a job is complete: its entry carries the URL and its local file is gone
C19_Witness ==
  /\ pc["j1"] = "completed"
  /\ HasUrl("j1")
  /\ ~file["j1"]

\* C20: every event sent for an accepted job carries the session id of its
\* submission.
C20_EventsCarrySessionId ==
  \A s \in Subs :
    Accepted(s) => \A i \in DOMAIN evts[s] : evts[s][i].session_id = Sid(s)

\* this step is a format listing or a result retrieval, answered with lastHttp'
GatedRequest ==
  /\ lastHttp' # lastHttp
  /\ lastHttp'.op \in {"fetch_formats", "download_file"}

\* token is in the ledger, unused and older than 300 seconds
Expired(token) ==
  /\ token \in DOMAIN tokens_db
  /\ ~tokens_db[token].used
  /\ now - tokens_db[token].created_at > TOKEN_TTL

C15_UnauthorizedStep ==
  (GatedRequest /\ ~validate_token(tokens_db, lastHttp'.token, now)) =>
    /\ lastHttp'.status = 401
    /\ lastHttp'.download_url = NoUrl
    /\ UNCHANGED <<now, issued, consumed, downloads_db, jobVars, storeVars, formatVars,
                   issueVars>>
    /\ \/ tokens_db' = tokens_db
       \/ Expired(lastHttp'.token) /\ tokens_db' = Del(tokens_db, lastHttp'.token)

\* C15: a format listing or result retrieval whose token is missing, unknown, used
\* or older than 300 seconds is answered 401 without a URL; the engine's answer
\* and the registry play no part, and nothing changes but the eviction of that
\* token when it is expired.
C15_GatedRequestUnauthorized == [][C15_UnauthorizedStep]_vars

\* the result of a completed job was asked for with the token the job consumed,
\* and refused
C15_Witness ==
  /\ lastHttp.op = "download_file"
  /\ lastHttp.status = 401
  /\ lastHttp.token \in consumed
  /\ lastHttp.download_id \in DOMAIN downloads_db
  /\ downloads_db[lastHttp.download_id].download_url # NoUrl

\* this step runs validate_token on the given token: a gated HTTP request or the
\* entry of handle_download
Validates(token) ==
  \/ GatedRequest /\ lastHttp'.token = token
  \/ \E s \in Subs : pc[s] = "idle" /\ pc'[s] # "idle" /\ req'[s].token = token

C18_ValidationStep ==
  \A token \in Presentable :
    Validates(token) =>
      /\ validate_token(tokens_db, token, now) =>
           /\ tokens_db' = tokens_db
           /\ GatedRequest => lastHttp'.status # 401
      /\ tokens_db' # tokens_db =>
           /\ Expired(token)
           /\ tokens_db' = Del(tokens_db, token)

C18_UnconsumedStaysValid ==
  \A n \in DOMAIN issued :
    (Tok(n) \notin consumed /\ now - issued[n].created_at <= TOKEN_TTL)
      => validate_token(tokens_db, Tok(n), now)

\* C18: validating a present, unused token of at most 300 seconds succeeds and
\* leaves the ledger as it was, so the token stays valid until a job submission
\* consumes it or it expires; a validation removes an entry only when the token
\* is unused and older than 300 seconds.
C18_ValidationKeepsLedger == []C18_UnconsumedStaysValid /\ [][C18_ValidationStep]_vars

\* a gated request was accepted and its token is still valid afterwards
C18_Witness ==
  /\ lastHttp.op \in {"fetch_formats", "download_file"}
  /\ lastHttp.status # 401
  /\ validate_token(tokens_db, lastHttp.token, now)

\* the audio-only formats among those the engine returned
AudioOnlyIn(fs) == {i \in DOMAIN fs : fs[i].acodec # "none" /\ fs[i].vcodec = "none"}

\* the last request was a format listing with a valid token and a URL for which
\* the engine returned formats
ListingAnswered == listing.answered /\ lastHttp.op = "fetch_formats"

\* C16: a format listing for a URL without audio-only formats succeeds with empty
\* audio_formats and null best_audio; in every successful listing best_audio is
\* an audio-only format of the highest bitrate, and null exactly when
\* audio_formats is empty.
C16_BestAudioOfListing ==
  ListingAnswered =>
    /\ AudioOnlyIn(formats) = {} =>
         /\ lastHttp.status = 200
         /\ listing.audio_formats = <<>>
         /\ listing.best_audio = NoFormat
    /\ lastHttp.status = 200 =>
         /\ listing.best_audio = NoFormat <=> listing.audio_formats = <<>>
         /\ listing.audio_formats # <<>> =>
              /\ listing.best_audio.format_id \in AudioOnlyIn(formats)
              /\ \A i \in AudioOnlyIn(formats) :
                   Get(formats[i].abr, 0) <= listing.best_audio.abr

\* the tokens the ledger holds for client ip
HeldBy(ip) == {k \in DOMAIN tokens_db : tokens_db[k].ip = ip}

\* C21: whatever the interleaving of concurrently handled issuance requests, the
\* ledger never holds more than 10 tokens of one client.
C21_AtMostTenHeld ==
  \A ip \in Clients : Cardinality(HeldBy(ip)) <= RATE_LIMIT

\* the event a submission without url, video selector or audio selector is answered with
ParameterEvent == Ev("download_error", NoSid, "error", NoPct, NoUrl, FALSE, NoJob)

\* the token submission s presented is flagged used in the ledger
MarkedUsed(s) == req[s].token \in DOMAIN tokens_db /\ tokens_db[req[s].token].used

\* C22: a submission that passed the token check but lacks a parameter has been
\* answered with one error event, has no job id, no download, no file and no
\* registry entry, and its token is from then on not valid: it is flagged used
\* in the ledger, or it is gone from the ledger (it expired and was swept
\* while the handler ran).
C22_IncompleteSubmissionConsumesToken ==
  \A s \in Subs :
    pc[s] = "invalid" =>
      /\ evts[s] = <<ParameterEvent>>
      /\ download_id[s] = NoJob
      /\ eng[s].stream = "none"
      /\ ~file[s]
      /\ uuid4(s) \notin DOMAIN downloads_db
      /\ ~validate_token(tokens_db, req[s].token, now)
      /\ (req[s].token \in DOMAIN tokens_db => MarkedUsed(s))

\* a submission lacking a parameter was rejected, and its token, still within its
\* lifetime, is flagged used in the ledger
C22_Witness ==
  \E s \in Subs :
    /\ pc[s] = "invalid"
    /\ MarkedUsed(s)
    /\ now - tokens_db[req[s].token].created_at <= TOKEN_TTL

\* C22 as stated: when the submission is rejected for a missing parameter, its
\* token is in the ledger, flagged used.
C22_TokenLeftMarkedUsed ==
  [][\A s \in Subs : (pc[s] = "marked" /\ pc'[s] = "invalid") => MarkedUsed(s)']_vars

\* the submissions whose job has download id d
JobsOf(d) == {s \in Subs : download_id[s] = d}

\* entry d of the registry was written by the upload thread of a job that ended
\* Completed (with a URL and no fallback flag) or Fallback (the flag and no URL)
EntryOfFinishedJob(d) ==
  \E s \in JobsOf(d) :
    \/ /\ pc[s] = "completed"
       /\ downloads_db[d].download_url = Url(s)
       /\ ~downloads_db[d].fallback
    \/ /\ pc[s] = "fallback"
       /\ downloads_db[d].download_url = NoUrl
       /\ downloads_db[d].fallback

\* the last response was sent by result retrieval
Retrieved == lastHttp # NoResponse /\ lastHttp.op = "download_file"

\* C23: every registry entry belongs to a job whose download succeeded and whose
\* upload attempt has finished, and carries either a URL or the fallback flag; a
\* job that is downloading, merging or uploading, or that failed, has no entry;
\* result retrieval answers with a URL only for an entry that carries one, and
\* never for the entry of a fallback job.
C23_RegistryHoldsFinishedJobs ==
  /\ \A d \in DOMAIN downloads_db :
       /\ EntryOfFinishedJob(d)
       /\ (downloads_db[d].download_url # NoUrl) # downloads_db[d].fallback
  /\ \A s \in Subs :
       pc[s] \in {"engine", "uploading", "record", "failed", "nofile"}
         => download_id[s] \notin DOMAIN downloads_db
  /\ (Retrieved /\ lastHttp.status = 200) =>
       /\ lastHttp.download_url # NoUrl
       /\ \E s \in JobsOf(lastHttp.download_id) :
            pc[s] = "completed" /\ lastHttp.download_url = Url(s)
  /\ \A s \in Subs :
       (Retrieved /\ pc[s] = "fallback" /\ lastHttp.download_id = download_id[s])
         => lastHttp.status \in {401, 404}

\* result retrieval with a valid token was answered not-found for the entry of a
\* fallback job
C23_Witness ==
  \E s \in Subs :
    /\ pc[s] = "fallback"
    /\ download_id[s] \in DOMAIN downloads_db
    /\ downloads_db[download_id[s]].fallback
    /\ Retrieved
    /\ lastHttp.download_id = download_id[s]
    /\ lastHttp.status = 404
    /\ lastHttp.at >= downloads_db[download_id[s]].timestamp
====
